---- MODULE Spec2Model ----
(***************************************************************************)
(* ERPRO: the storage layer (DatabaseStorage, src/server/storage.ts) and   *)
(* the REST routes registered on top of it (registerRoutes, same file),    *)
(* over the tables declared in src/shared/schema.ts.                       *)
(*                                                                         *)
(* A table is a set of rows, a row is a record.  Only the columns that a   *)
(* query, a constraint or a handler of storage.ts reads are kept; the      *)
(* free-text columns (rg, endereco, observacoes, ...) are written by       *)
(* insert/update exactly like nome and are read by no condition.           *)
(* Timestamps are natural numbers read from one clock.                     *)
(***************************************************************************)
EXTENDS Integers, Sequences, FiniteSets, TLC

\* db: the database, one set of rows per table; clock: the time new Date()
\* and defaultNow() read; last: the request served last, when requests are
\* served one at a time; reqs: the requests in flight, each handler suspended
\* at an await or answered, when requests overlap
VARIABLES db, clock, last, reqs

vars == <<db, clock, last, reqs>>

(***************************************************************************)
(* Bounds of the exploration.                                              *)
(***************************************************************************)
MaxClock == 1
MaxRows == 2
MaxReqs == 2

Cpfs == {"11111111111", "22222222222"}
Nomes == {<<"a">>, <<"a", "b">>}
Tipos == {"S", "T"}
\* the ids a request may name: those a person can have and one that none has
Ids == 1..(Cardinality(Cpfs) + 1)

\* JavaScript's undefined, as the result of a destructured empty result set.
Undefined == [undefined |-> TRUE]

(***************************************************************************)
(* Objects: a JavaScript object is a function from its keys.               *)
(***************************************************************************)
\* { ...base, ...over }
Spread(base, over) ==
  [k \in (DOMAIN base) \cup (DOMAIN over) |->
     IF k \in DOMAIN over THEN over[k] ELSE base[k]]

\* the object restricted to the keys of ks
Pick(obj, ks) == [k \in (DOMAIN obj) \cap ks |-> obj[k]]

Has(obj, k) == k \in DOMAIN obj

(***************************************************************************)
(* SQL conditions (drizzle-orm's eq, like, and) and their evaluation on a  *)
(* row.  LIKE is PostgreSQL's: % matches any string, _ any one character.  *)
(***************************************************************************)
eq(col, val) == [op |-> "eq", col |-> col, val |-> val]
like(col, pattern) == [op |-> "like", col |-> col, val |-> pattern]
and(l, r) == [op |-> "and", l |-> l, r |-> r]
gte(col, val) == [op |-> "gte", col |-> col, val |-> val]
lte(col, val) == [op |-> "lte", col |-> col, val |-> val]
\* sql`(${col} IS NULL OR ${col} >= ${val})`
isNullOrGte(col, val) == [op |-> "isNullOrGte", col |-> col, val |-> val]

\* SQL NULL in a date column (dates are day numbers from 0)
Null == 0 - 1

RECURSIVE LikeMatch(_, _)
LikeMatch(s, p) ==
  IF p = <<>> THEN s = <<>>
  ELSE IF Head(p) = "%"
    THEN LikeMatch(s, Tail(p)) \/ (s # <<>> /\ LikeMatch(Tail(s), p))
  ELSE IF Head(p) = "_"
    THEN s # <<>> /\ LikeMatch(Tail(s), Tail(p))
  ELSE s # <<>> /\ Head(s) = Head(p) /\ LikeMatch(Tail(s), Tail(p))

RECURSIVE Eval(_, _)
Eval(cond, row) ==
  CASE cond.op = "eq" -> row[cond.col] = cond.val
    [] cond.op = "like" -> LikeMatch(row[cond.col], cond.val)
    [] cond.op = "and" -> Eval(cond.l, row) /\ Eval(cond.r, row)
    [] cond.op = "gte" -> row[cond.col] # Null /\ row[cond.col] >= cond.val
    [] cond.op = "lte" -> row[cond.col] # Null /\ row[cond.col] <= cond.val
    [] cond.op = "isNullOrGte" -> row[cond.col] = Null \/ row[cond.col] >= cond.val

(***************************************************************************)
(* drizzle-orm's select builder.  The builder keeps ONE where condition:   *)
(* .where(c) stores c in the builder's configuration, so a second .where() *)
(* on the same builder replaces the first condition, it does not AND it.   *)
(***************************************************************************)
select(tbl) == [from |-> tbl, where |-> Undefined]

where(query, cond) == [query EXCEPT !.where = cond]

\* awaiting the builder runs the statement
execute(query) ==
  IF query.where = Undefined THEN query.from
  ELSE {row \in query.from : Eval(query.where, row)}

\* const [x] = await ... : the first row, undefined when there is none
first(rows) == IF rows = {} THEN Undefined ELSE CHOOSE row \in rows : TRUE

\* orderBy(desc(col)): the rows as a list, greatest col first
RECURSIVE orderByDesc(_, _)
orderByDesc(rows, col) ==
  IF rows = {} THEN <<>>
  ELSE LET top == CHOOSE r \in rows : \A o \in rows : o[col] <= r[col]
       IN <<top>> \o orderByDesc(rows \ {top}, col)

Range(seq) == {seq[i] : i \in DOMAIN seq}

(***************************************************************************)
(* The schema (src/shared/schema.ts): the tables the storage layer writes, *)
(* the .unique() column of each and the .references() columns.             *)
(***************************************************************************)
Lookups == {"cargos", "unidades", "municipios", "estados", "tiposAfastamento",
            "tiposEscala", "statusDiaria", "tiposArma"}

Tables == {"pessoas", "dadosFuncionais", "afastamentos", "escalas", "diarias",
           "armamento", "users"} \cup Lookups

\* the column under a unique constraint (the primary key where no other is)
uniqueColumn(t) ==
  CASE t = "pessoas" -> "cpf"
    [] t = "dadosFuncionais" -> "matricula"
    [] t = "armamento" -> "numeroSerie"
    [] OTHER -> "id"

\* the tables whose pessoaId column .references(() => pessoas.id)
referencesPessoas == {"dadosFuncionais", "afastamentos", "escalas", "diarias"}

uniqueOk(tbl, col) == \A a, b \in tbl : a[col] = b[col] => a = b

foreignKeyOk(d, t) ==
  t \in referencesPessoas =>
    \A r \in d[t] : \E p \in d.pessoas : p.id = r.pessoaId

constraintsOk(d, t) == uniqueOk(d[t], uniqueColumn(t)) /\ foreignKeyOk(d, t)

(***************************************************************************)
(* INSERT and UPDATE statements.  Each is one atomic statement; it either  *)
(* commits or throws (ok = FALSE) and leaves the database as it was.       *)
(***************************************************************************)
\* integer("id").primaryKey().generatedByDefaultAsIdentity()
nextId(tbl) ==
  IF tbl = {} THEN 1
  ELSE 1 + (CHOOSE n \in {r.id : r \in tbl} : \A r \in tbl : r.id <= n)

\* the columns an insert may leave out: .default(...), .defaultNow(), and
\* NULL for a nullable column
columnDefaults(t, id, now) ==
  LET common == [id |-> id, isActive |-> TRUE, createdAt |-> now, updatedAt |-> now]
  IN CASE t = "afastamentos" -> Spread(common, [dataFim |-> Null])
       [] t = "armamento" -> Spread(common, [situacao |-> "DISPONIVEL"])
       [] OTHER -> common

\* insert, had the table no constraint
insertUnchecked(d, t, values, now) ==
  LET row == Spread(columnDefaults(t, nextId(d[t]), now), values)
  IN [ok |-> TRUE, db |-> [d EXCEPT ![t] = @ \cup {row}], rows |-> {row}]

\* db.insert(t).values(v).returning()
insert(d, t, values, now) ==
  LET row == Spread(columnDefaults(t, nextId(d[t]), now), values)
      out == [d EXCEPT ![t] = @ \cup {row}]
  IN IF constraintsOk(out, t)
       THEN [ok |-> TRUE, db |-> out, rows |-> {row}]
       ELSE [ok |-> FALSE, db |-> d, rows |-> {}]

\* update, had the table no constraint
updateUnchecked(d, t, set, cond) ==
  LET hit == {r \in d[t] : Eval(cond, r)}
      new == {Spread(r, set) : r \in hit}
  IN [ok |-> TRUE, db |-> [d EXCEPT ![t] = (@ \ hit) \cup new], rows |-> new]

\* db.update(t).set(s).where(c).returning()
update(d, t, set, cond) ==
  LET hit == {r \in d[t] : Eval(cond, r)}
      new == {Spread(r, set) : r \in hit}
      out == [d EXCEPT ![t] = (@ \ hit) \cup new]
  IN IF constraintsOk(out, t)
       THEN [ok |-> TRUE, db |-> out, rows |-> new]
       ELSE [ok |-> FALSE, db |-> d, rows |-> {}]

(***************************************************************************)
(* Request bodies and the zod insert schemas.  A body is an object with    *)
(* any of the keys below.  createInsertSchema(t).omit({id, createdAt,      *)
(* updatedAt}) requires the notNull columns that have no default, accepts  *)
(* the others as optional (isActive among them) and strips the keys it     *)
(* does not declare; parse throws a ZodError (ok = FALSE) otherwise.       *)
(***************************************************************************)
Opt(k, vals) == {<<>>} \cup {[x \in {k} |-> v] : v \in vals}

\* POST bodies: complete ones, one that lacks cpf, one that names the columns
\* the schema omits; tipoPessoa is read by getPessoas alone and is "S" here
PessoaBodies ==
  {Spread(Spread([nome |-> n, tipoPessoa |-> "S"], [cpf |-> c]), a) :
     n \in Nomes, c \in Cpfs, a \in Opt("isActive", {FALSE})}
  \cup {[nome |-> <<"a">>, tipoPessoa |-> "S"],
        [nome |-> <<"a">>, cpf |-> "11111111111", tipoPessoa |-> "S",
         id |-> 1, createdAt |-> 0, updatedAt |-> 0]}

\* PUT bodies: patches of one or two columns
PessoaPatches ==
  {<<>>, [id |-> 2, updatedAt |-> 0], [nome |-> <<"a", "b">>],
   [isActive |-> TRUE], [isActive |-> FALSE]}
  \cup {[cpf |-> c] : c \in Cpfs}
  \cup {[cpf |-> c, isActive |-> TRUE] : c \in Cpfs}

\* the notNull columns without a default, and the other columns a body may set
requiredColumns(t) ==
  CASE t = "pessoas" -> {"nome", "cpf", "tipoPessoa"}
    [] t = "dadosFuncionais" -> {"pessoaId", "matricula"}
    [] t = "afastamentos" -> {"pessoaId", "dataInicio"}
    [] t = "escalas" -> {"pessoaId", "unidadeId", "dataEscala"}
    [] t = "diarias" -> {"pessoaId", "statusId", "destino", "dataInicio", "dataFim"}
    [] t = "armamento" -> {"numeroSerie", "tipoArmaId"}

optionalColumns(t) ==
  CASE t = "afastamentos" -> {"isActive", "dataFim"}
    [] t = "armamento" -> {"isActive", "situacao"}
    [] OTHER -> {"isActive"}

\* the keys of a body whose JSON value is not of the type of the column (a
\* number where the column is text, a string where it is boolean): a body
\* names them in its wrongType entry
wrongType(body) == IF Has(body, "wrongType") THEN body.wrongType ELSE {}

\* createInsertSchema(t).omit({ id: true, createdAt: true, updatedAt: true })
insertSchema(t, body) ==
  LET declared == requiredColumns(t) \cup optionalColumns(t)
  IN IF requiredColumns(t) \subseteq DOMAIN body /\ wrongType(body) \cap declared = {}
       THEN [ok |-> TRUE, data |-> Pick(body, declared)]
       ELSE [ok |-> FALSE, data |-> Undefined]

insertPessoaSchema(body) == insertSchema("pessoas", body)

\* insertPessoaSchema.partial(): every key optional
insertPessoaSchemaPartial(body) ==
  LET declared == requiredColumns("pessoas") \cup optionalColumns("pessoas")
  IN IF wrongType(body) \cap declared = {}
       THEN [ok |-> TRUE, data |-> Pick(body, declared)]
       ELSE [ok |-> FALSE, data |-> Undefined]

(***************************************************************************)
(* DatabaseStorage: pessoas.                                               *)
(***************************************************************************)
PessoaFilters ==
  {Spread(Spread(n, c), t) :
     n \in Opt("nome", {<<>>, <<"a">>, <<"b">>}), c \in Opt("cpf", Cpfs \cup {""}),
     t \in Opt("tipoPessoa", Tipos)}

getPessoas(d, filters) ==
  LET q0 == where(select(d.pessoas), eq("isActive", TRUE))
      q1 == IF Has(filters, "nome") /\ filters.nome # <<>>
              THEN where(q0, like("nome", <<"%">> \o filters.nome \o <<"%">>))
              ELSE q0
      q2 == IF Has(filters, "cpf") /\ filters.cpf # ""
              THEN where(q1, eq("cpf", filters.cpf))
              ELSE q1
      q3 == IF Has(filters, "tipoPessoa")
              THEN where(q2, eq("tipoPessoa", filters.tipoPessoa))
              ELSE q2
  IN orderByDesc(execute(q3), "createdAt")

\* getPessoaById, had it left the isActive condition out
getPessoaByIdAnyRow(d, id) ==
  first(execute(where(select(d.pessoas), eq("id", id))))

getPessoaById(d, id) ==
  first(execute(where(select(d.pessoas),
                      and(eq("id", id), eq("isActive", TRUE)))))

\* getPessoaByCpf, had it chained two where() calls as getPessoas does
getPessoaByCpfChained(d, cpf) ==
  first(execute(where(where(select(d.pessoas), eq("cpf", cpf)),
                      eq("isActive", TRUE))))

getPessoaByCpf(d, cpf) ==
  first(execute(where(select(d.pessoas),
                      and(eq("cpf", cpf), eq("isActive", TRUE)))))

createPessoa(d, pessoa, now) == insert(d, "pessoas", pessoa, now)

\* updatePessoa, had it saved a whole row: the supplied fields, and the
\* column default for isActive when the body does not name it
updatePessoaWholeRow(d, id, pessoa, now) ==
  update(d, "pessoas", Spread([isActive |-> TRUE], Spread(pessoa, [updatedAt |-> now])),
         eq("id", id))

\* updatePessoa, had its statement carried no where(eq(pessoas.id, id))
updatePessoaEveryRow(d, id, pessoa, now) ==
  update(d, "pessoas", Spread(pessoa, [updatedAt |-> now]), gte("id", 1))

\* updatePessoa, had it stamped new Date(0)
updatePessoaEpoch(d, id, pessoa, now) ==
  update(d, "pessoas", Spread(pessoa, [updatedAt |-> 0]), eq("id", id))

updatePessoa(d, id, pessoa, now) ==
  update(d, "pessoas", Spread(pessoa, [updatedAt |-> now]), eq("id", id))

\* deletePessoa, had it soft-deleted the rows that reference the person too
deletePessoaCascade(d, id, now) ==
  LET done == update(d, "pessoas", [isActive |-> FALSE, updatedAt |-> now], eq("id", id))
      swept(t) == {IF r.pessoaId = id THEN Spread(r, [isActive |-> FALSE, updatedAt |-> now])
                   ELSE r : r \in done.db[t]}
  IN [done EXCEPT !.db = [t \in DOMAIN @ |-> IF t \in referencesPessoas THEN swept(t) ELSE @[t]]]

\* deletePessoa, had it thrown when no row has the id
deletePessoaStrict(d, id, now) ==
  LET done == update(d, "pessoas", [isActive |-> FALSE, updatedAt |-> now], eq("id", id))
  IN IF done.rows = {} THEN [ok |-> FALSE, db |-> d, rows |-> {}] ELSE done

\* deletePessoa, had it been a DELETE statement
deletePessoaHard(d, id, now) ==
  [ok |-> TRUE, db |-> [d EXCEPT !.pessoas = {p \in @ : p.id # id}], rows |-> {}]

deletePessoa(d, id, now) ==
  update(d, "pessoas", [isActive |-> FALSE, updatedAt |-> now], eq("id", id))

(***************************************************************************)
(* DatabaseStorage: users and the other entities.  Dates are day numbers   *)
(* and the clock counts days, so that toISOString().split('T')[0] of a     *)
(* Date is the Date's own number.                                          *)
(***************************************************************************)
getUser(d, id) == first(execute(where(select(d.users), eq("id", id))))

\* insert ... onConflictDoUpdate({ target: users.id, set: {...userData, updatedAt} })
upsertUser(d, userData, now) ==
  LET old == {u \in d.users : u.id = userData.id}
      row == IF old = {}
               THEN Spread([createdAt |-> now, updatedAt |-> now], userData)
               ELSE Spread(first(old), Spread(userData, [updatedAt |-> now]))
      out == [d EXCEPT !.users = (@ \ old) \cup {row}]
  IN IF uniqueOk(out.users, "email")
       THEN [ok |-> TRUE, db |-> out, rows |-> {row}]
       ELSE [ok |-> FALSE, db |-> d, rows |-> {}]

getDadosFuncionaisByPessoaId(d, pessoaId) ==
  first(execute(where(select(d.dadosFuncionais),
                      and(eq("pessoaId", pessoaId), eq("isActive", TRUE)))))

createDadosFuncionais(d, dados, now) == insert(d, "dadosFuncionais", dados, now)

updateDadosFuncionais(d, id, dados, now) ==
  update(d, "dadosFuncionais", Spread(dados, [updatedAt |-> now]), eq("id", id))

\* filters.ativo is accepted and never read
getAfastamentos(d, filters) ==
  LET q0 == where(select(d.afastamentos), eq("isActive", TRUE))
      q1 == IF Has(filters, "pessoaId") /\ filters.pessoaId # 0
              THEN where(q0, eq("pessoaId", filters.pessoaId))
              ELSE q0
  IN orderByDesc(execute(q1), "createdAt")

createAfastamento(d, afastamento, now) == insert(d, "afastamentos", afastamento, now)

updateAfastamento(d, id, afastamento, now) ==
  update(d, "afastamentos", Spread(afastamento, [updatedAt |-> now]), eq("id", id))

getEscalas(d, filters) ==
  LET q0 == where(select(d.escalas), eq("isActive", TRUE))
      q1 == IF Has(filters, "data")
              THEN where(q0, eq("dataEscala", filters.data))
              ELSE q0
      q2 == IF Has(filters, "pessoaId") /\ filters.pessoaId # 0
              THEN where(q1, eq("pessoaId", filters.pessoaId))
              ELSE q1
      q3 == IF Has(filters, "unidadeId") /\ filters.unidadeId # 0
              THEN where(q2, eq("unidadeId", filters.unidadeId))
              ELSE q2
  IN orderByDesc(execute(q3), "dataEscala")

createEscala(d, escala, now) == insert(d, "escalas", escala, now)

updateEscala(d, id, escala, now) ==
  update(d, "escalas", Spread(escala, [updatedAt |-> now]), eq("id", id))

getDiarias(d, filters) ==
  LET q0 == where(select(d.diarias), eq("isActive", TRUE))
      q1 == IF Has(filters, "pessoaId") /\ filters.pessoaId # 0
              THEN where(q0, eq("pessoaId", filters.pessoaId))
              ELSE q0
      q2 == IF Has(filters, "statusId") /\ filters.statusId # 0
              THEN where(q1, eq("statusId", filters.statusId))
              ELSE q1
      q3 == IF Has(filters, "dataInicio")
              THEN where(q2, gte("dataInicio", filters.dataInicio))
              ELSE q2
      q4 == IF Has(filters, "dataFim")
              THEN where(q3, lte("dataFim", filters.dataFim))
              ELSE q3
  IN orderByDesc(execute(q4), "createdAt")

createDiaria(d, diaria, now) == insert(d, "diarias", diaria, now)

updateDiaria(d, id, diaria, now) ==
  update(d, "diarias", Spread(diaria, [updatedAt |-> now]), eq("id", id))

getArmamentos(d, filters) ==
  LET q0 == where(select(d.armamento), eq("isActive", TRUE))
      q1 == IF Has(filters, "situacao") /\ filters.situacao # ""
              THEN where(q0, eq("situacao", filters.situacao))
              ELSE q0
      q2 == IF Has(filters, "tipoArmaId") /\ filters.tipoArmaId # 0
              THEN where(q1, eq("tipoArmaId", filters.tipoArmaId))
              ELSE q1
  IN orderByDesc(execute(q2), "createdAt")

createArmamento(d, armamentoData, now) == insert(d, "armamento", armamentoData, now)

updateArmamento(d, id, armamentoData, now) ==
  update(d, "armamento", Spread(armamentoData, [updatedAt |-> now]), eq("id", id))

\* getCargos, getUnidades, getMunicipios, getEstados, getTiposAfastamento,
\* getTiposEscala, getStatusDiaria, getTiposArma: one query each, on table t
getLookup(d, t) == execute(where(select(d[t]), eq("isActive", TRUE)))

count(rows) == Cardinality(rows)

\* getDashboardStats, had armamentoEmUso left the situacao condition out
getDashboardStatsAnySituacao(d, now) ==
  [totalServidores |->
     count(execute(where(select(d.pessoas),
                         and(eq("isActive", TRUE), eq("tipoPessoa", "S"))))),
   afastamentosAtivos |->
     count(execute(where(select(d.afastamentos),
                         and(eq("isActive", TRUE),
                             and(lte("dataInicio", now),
                                 isNullOrGte("dataFim", now)))))),
   diariasPendentes |->
     count(execute(where(select(d.diarias),
                         and(eq("isActive", TRUE), eq("statusId", 1))))),
   armamentoEmUso |->
     count(execute(where(select(d.armamento), eq("isActive", TRUE))))]

\* getDashboardStats, had totalServidores left the tipoPessoa condition out
getDashboardStatsAnyTipo(d, now) ==
  [totalServidores |->
     count(execute(where(select(d.pessoas), eq("isActive", TRUE)))),
   afastamentosAtivos |->
     count(execute(where(select(d.afastamentos),
                         and(eq("isActive", TRUE),
                             and(lte("dataInicio", now),
                                 isNullOrGte("dataFim", now)))))),
   diariasPendentes |->
     count(execute(where(select(d.diarias),
                         and(eq("isActive", TRUE), eq("statusId", 1))))),
   armamentoEmUso |->
     count(execute(where(select(d.armamento),
                         and(eq("isActive", TRUE), eq("situacao", "EM_USO")))))]

\* getDashboardStats, had afastamentosAtivos compared dataFim with gte alone
getDashboardStatsEndRequired(d, now) ==
  [totalServidores |->
     count(execute(where(select(d.pessoas),
                         and(eq("isActive", TRUE), eq("tipoPessoa", "S"))))),
   afastamentosAtivos |->
     count(execute(where(select(d.afastamentos),
                         and(eq("isActive", TRUE),
                             and(lte("dataInicio", now), gte("dataFim", now)))))),
   diariasPendentes |->
     count(execute(where(select(d.diarias),
                         and(eq("isActive", TRUE), eq("statusId", 1))))),
   armamentoEmUso |->
     count(execute(where(select(d.armamento),
                         and(eq("isActive", TRUE), eq("situacao", "EM_USO")))))]

\* getDashboardStats, had diariasPendentes resolved the status through the
\* active rows of status_diaria
getDashboardStatsByStatusRow(d, now) ==
  [totalServidores |->
     count(execute(where(select(d.pessoas),
                         and(eq("isActive", TRUE), eq("tipoPessoa", "S"))))),
   afastamentosAtivos |->
     count(execute(where(select(d.afastamentos),
                         and(eq("isActive", TRUE),
                             and(lte("dataInicio", now),
                                 isNullOrGte("dataFim", now)))))),
   diariasPendentes |->
     count({x \in execute(where(select(d.diarias), eq("isActive", TRUE))) :
              \E st \in getLookup(d, "statusDiaria") : st.id = 1 /\ x.statusId = st.id}),
   armamentoEmUso |->
     count(execute(where(select(d.armamento),
                         and(eq("isActive", TRUE), eq("situacao", "EM_USO")))))]

getDashboardStats(d, now) ==
  LET hoje == now
  IN [totalServidores |->
        count(execute(where(select(d.pessoas),
                            and(eq("isActive", TRUE), eq("tipoPessoa", "S"))))),
      afastamentosAtivos |->
        count(execute(where(select(d.afastamentos),
                            and(eq("isActive", TRUE),
                                and(lte("dataInicio", hoje),
                                    isNullOrGte("dataFim", hoje)))))),
      diariasPendentes |->
        count(execute(where(select(d.diarias),
                            and(eq("isActive", TRUE), eq("statusId", 1))))),
      armamentoEmUso |->
        count(execute(where(select(d.armamento),
                            and(eq("isActive", TRUE), eq("situacao", "EM_USO")))))]

\* the query had it carried no .limit(): every row
limitNone(seq, n) == seq

\* .limit(n)
limit(seq, n) == SubSeq(seq, 1, IF Len(seq) < n THEN Len(seq) ELSE n)

\* Array.prototype.sort with (a, b) => b.data - a.data: stable, greatest first
RECURSIVE sortByDataDesc(_)
sortByDataDesc(seq) ==
  IF seq = <<>> THEN <<>>
  ELSE LET i == CHOOSE i \in DOMAIN seq :
                  /\ \A j \in DOMAIN seq : seq[j].data <= seq[i].data
                  /\ \A j \in 1..(i - 1) : seq[j].data < seq[i].data
       IN <<seq[i]>> \o sortByDataDesc(SubSeq(seq, 1, i - 1) \o SubSeq(seq, i + 1, Len(seq)))

getRecentActivities(d) ==
  LET pessoasRecentes ==
        limit(orderByDesc(execute(where(select(d.pessoas), eq("isActive", TRUE))),
                          "createdAt"), 3)
      diariasRecentes ==
        limit(orderByDesc(execute(where(select(d.diarias), eq("isActive", TRUE))),
                          "createdAt"), 2)
      \* leftJoin(pessoas, eq(diarias.pessoaId, pessoas.id))
      nomeDe(diaria) ==
        LET joined == {p \in d.pessoas : p.id = diaria.pessoaId}
        IN IF joined = {} THEN <<>> ELSE first(joined).nome
  IN sortByDataDesc(
       [i \in DOMAIN pessoasRecentes |->
          [id |-> pessoasRecentes[i].id, tipo |-> "pessoa_criada",
           descricao |-> <<"Nova pessoa cadastrada: ">> \o pessoasRecentes[i].nome,
           data |-> pessoasRecentes[i].createdAt,
           pessoaNome |-> pessoasRecentes[i].nome]]
       \o
       [i \in DOMAIN diariasRecentes |->
          [id |-> diariasRecentes[i].id, tipo |-> "diaria_criada",
           descricao |-> <<"Nova diaria criada para ", diariasRecentes[i].destino>>,
           data |-> diariasRecentes[i].createdAt,
           pessoaNome |-> nomeDe(diariasRecentes[i])]])

(***************************************************************************)
(* registerRoutes: the handlers of /api/pessoas.  A handler's outcome is   *)
(* the response it sends (status, message), the storage operations it      *)
(* called, in order, and the database it leaves.                           *)
(***************************************************************************)
outcome(status, message, calls, d, json) ==
  [status |-> status, message |-> message, calls |-> calls, db |-> d,
   json |-> json]

\* app.get("/api/pessoas")
getPessoasHandler(d, query) ==
  outcome(200, "", <<"getPessoas">>, d, getPessoas(d, query))

\* app.get("/api/pessoas/:id")
getPessoaHandler(d, id) ==
  LET pessoa == getPessoaById(d, id)
  IN IF pessoa = Undefined
       THEN outcome(404, "Pessoa nao encontrada", <<"getPessoaById">>, d, Undefined)
       ELSE outcome(200, "", <<"getPessoaById">>, d, pessoa)

\* the POST handler, had it gone to the insert without the pre-check
postPessoaHandlerNoPreCheck(d, body, now) ==
  LET pessoaData == insertPessoaSchema(body)
  IN IF ~pessoaData.ok
       THEN outcome(400, "Dados invalidos", <<>>, d, Undefined)
       ELSE
         LET novaPessoa == createPessoa(d, pessoaData.data, now)
         IN IF novaPessoa.ok
              THEN outcome(201, "", <<"createPessoa">>, novaPessoa.db,
                           first(novaPessoa.rows))
              ELSE outcome(500, "Falha ao cadastrar pessoa", <<"createPessoa">>,
                           d, Undefined)

\* app.post("/api/pessoas")
postPessoaHandler(d, body, now) ==
  LET pessoaData == insertPessoaSchema(body)
  IN IF ~pessoaData.ok
       THEN outcome(400, "Dados invalidos", <<>>, d, Undefined)
       ELSE
         LET pessoaExistente == getPessoaByCpf(d, pessoaData.data.cpf)
         IN IF pessoaExistente # Undefined
              THEN outcome(400, "CPF ja cadastrado no sistema",
                           <<"getPessoaByCpf">>, d, Undefined)
              ELSE
                LET novaPessoa == createPessoa(d, pessoaData.data, now)
                IN IF novaPessoa.ok
                     THEN outcome(201, "", <<"getPessoaByCpf", "createPessoa">>,
                                  novaPessoa.db, first(novaPessoa.rows))
                     ELSE outcome(500, "Falha ao cadastrar pessoa",
                                  <<"getPessoaByCpf", "createPessoa">>, d, Undefined)

\* the PUT handler, had it handed req.body to the storage layer unparsed
putPessoaHandlerUnparsed(d, id, body, now) ==
  LET pessoaAtualizada == updatePessoa(d, id, body, now)
  IN IF pessoaAtualizada.ok
       THEN outcome(200, "", <<"updatePessoa">>, pessoaAtualizada.db,
                    first(pessoaAtualizada.rows))
       ELSE outcome(500, "Falha ao atualizar dados da pessoa",
                    <<"updatePessoa">>, d, Undefined)

\* the PUT handler, had its catch block tried the update once more
putPessoaHandlerRetry(d, id, body, now) ==
  LET pessoaData == insertPessoaSchemaPartial(body)
  IN IF ~pessoaData.ok
       THEN outcome(400, "Dados invalidos", <<>>, d, Undefined)
       ELSE
         LET pessoaAtualizada == updatePessoa(d, id, pessoaData.data, now)
         IN IF pessoaAtualizada.ok
              THEN outcome(200, "", <<"updatePessoa">>, pessoaAtualizada.db,
                           first(pessoaAtualizada.rows))
              ELSE outcome(500, "Falha ao atualizar dados da pessoa",
                           <<"updatePessoa", "updatePessoa">>, d, Undefined)

\* app.put("/api/pessoas/:id")
putPessoaHandler(d, id, body, now) ==
  LET pessoaData == insertPessoaSchemaPartial(body)
  IN IF ~pessoaData.ok
       THEN outcome(400, "Dados invalidos", <<>>, d, Undefined)
       ELSE
         LET pessoaAtualizada == updatePessoa(d, id, pessoaData.data, now)
         IN IF pessoaAtualizada.ok
              THEN outcome(200, "", <<"updatePessoa">>, pessoaAtualizada.db,
                           first(pessoaAtualizada.rows))
              ELSE outcome(500, "Falha ao atualizar dados da pessoa",
                           <<"updatePessoa">>, d, Undefined)

\* app.delete("/api/pessoas/:id")
deletePessoaHandler(d, id, now) ==
  LET done == deletePessoa(d, id, now)
  IN IF done.ok
       THEN outcome(204, "", <<"deletePessoa">>, done.db, Undefined)
       ELSE outcome(500, "Falha ao excluir pessoa", <<"deletePessoa">>, d, Undefined)

(***************************************************************************)
(* registerRoutes: the handlers of the other routes.                       *)
(***************************************************************************)
\* a GET handler: one storage call, res.json(result)
read(op, d, json) == outcome(200, "", <<op>>, d, json)

\* a POST handler past the parse: res.status(201).json(row), or the catch
\* block's 500 when the insert threw
respondCreated(op, result, d) ==
  IF result.ok
    THEN outcome(201, "", <<op>>, result.db, first(result.rows))
    ELSE outcome(500, "Falha ao cadastrar", <<op>>, d, Undefined)

invalid(d) == outcome(400, "Dados invalidos", <<>>, d, Undefined)

\* app.get("/api/auth/user")
getAuthUserHandler(d, userId) == read("getUser", d, getUser(d, userId))

\* app.get("/api/dashboard/stats")
getDashboardStatsHandler(d, now) ==
  read("getDashboardStats", d, getDashboardStats(d, now))

\* app.get("/api/dashboard/activities")
getRecentActivitiesHandler(d) ==
  read("getRecentActivities", d, getRecentActivities(d))

\* app.get("/api/pessoas/:pessoaId/dados-funcionais")
getDadosFuncionaisHandler(d, pessoaId) ==
  read("getDadosFuncionaisByPessoaId", d, getDadosFuncionaisByPessoaId(d, pessoaId))

\* app.post("/api/dados-funcionais")
postDadosFuncionaisHandler(d, body, now) ==
  LET dadosData == insertSchema("dadosFuncionais", body)
  IN IF ~dadosData.ok THEN invalid(d)
     ELSE respondCreated("createDadosFuncionais",
                  createDadosFuncionais(d, dadosData.data, now), d)

\* app.get("/api/afastamentos")
getAfastamentosHandler(d, query) ==
  read("getAfastamentos", d, getAfastamentos(d, query))

\* app.post("/api/afastamentos")
postAfastamentoHandler(d, body, now) ==
  LET afastamentoData == insertSchema("afastamentos", body)
  IN IF ~afastamentoData.ok THEN invalid(d)
     ELSE respondCreated("createAfastamento",
                  createAfastamento(d, afastamentoData.data, now), d)

\* app.get("/api/escalas")
getEscalasHandler(d, query) == read("getEscalas", d, getEscalas(d, query))

\* app.post("/api/escalas")
postEscalaHandler(d, body, now) ==
  LET escalaData == insertSchema("escalas", body)
  IN IF ~escalaData.ok THEN invalid(d)
     ELSE respondCreated("createEscala", createEscala(d, escalaData.data, now), d)

\* app.get("/api/diarias")
getDiariasHandler(d, query) == read("getDiarias", d, getDiarias(d, query))

\* app.post("/api/diarias")
postDiariaHandler(d, body, now) ==
  LET diariaData == insertSchema("diarias", body)
  IN IF ~diariaData.ok THEN invalid(d)
     ELSE respondCreated("createDiaria", createDiaria(d, diariaData.data, now), d)

\* app.get("/api/armamentos")
getArmamentosHandler(d, query) == read("getArmamentos", d, getArmamentos(d, query))

\* app.post("/api/armamentos")
postArmamentoHandler(d, body, now) ==
  LET armamentoData == insertSchema("armamento", body)
  IN IF ~armamentoData.ok THEN invalid(d)
     ELSE respondCreated("createArmamento", createArmamento(d, armamentoData.data, now), d)

\* the storage operation behind each reference-data route
lookupOperation(t) ==
  CASE t = "cargos" -> "getCargos"
    [] t = "unidades" -> "getUnidades"
    [] t = "municipios" -> "getMunicipios"
    [] t = "estados" -> "getEstados"
    [] t = "tiposAfastamento" -> "getTiposAfastamento"
    [] t = "tiposEscala" -> "getTiposEscala"
    [] t = "statusDiaria" -> "getStatusDiaria"
    [] t = "tiposArma" -> "getTiposArma"

\* app.get("/api/cargos") ... app.get("/api/tipos-arma")
getLookupHandler(d, t) == read(lookupOperation(t), d, getLookup(d, t))

(***************************************************************************)
(* The middleware chain.  Every app.get/post/put/delete of registerRoutes  *)
(* passes isAuthenticated before its handler.  isAuthenticated itself      *)
(* (server/replitAuth.ts) lets a request with a valid session through and  *)
(* answers 401 otherwise.                                                  *)
(***************************************************************************)
isAuthenticated(session) == session

\* the registration, had the reference-data routes been left open
routeMiddlewareOpen(route) ==
  IF route \in {"GET /api/cargos", "GET /api/estados"}
    THEN <<>> ELSE <<"isAuthenticated">>

routeMiddleware(route) == <<"isAuthenticated">>

letThrough(route, session) ==
  \A i \in DOMAIN routeMiddleware(route) :
    routeMiddleware(route)[i] = "isAuthenticated" => isAuthenticated(session)

\* the request answered: what the client and the storage layer saw of it
answered(route, session, key, out) ==
  IF letThrough(route, session)
    THEN [route |-> route, session |-> session, key |-> key,
          status |-> out.status, message |-> out.message, calls |-> out.calls,
          json |-> out.json]
    ELSE [route |-> route, session |-> session, key |-> key,
          status |-> 401, message |-> "Unauthorized", calls |-> <<>>,
          json |-> Undefined]

\* one request served from arrival to response, no other request in between
Serve(route, session, key, out) ==
  /\ last' = answered(route, session, key, out)
  /\ db' = IF letThrough(route, session) THEN out.db ELSE db
  /\ UNCHANGED <<clock, reqs>>

(***************************************************************************)
(* Spec: the /api/pessoas routes, one request at a time.                   *)
(***************************************************************************)
NoRequest == [route |-> "", session |-> FALSE, key |-> 0, status |-> 0,
              message |-> "", calls |-> <<>>, json |-> Undefined]

\* the reference tables are filled outside the application: each starts with
\* an active and a soft-deleted row; the other tables start empty
EmptyDb ==
  [t \in Tables |->
     IF t \in Lookups
       THEN {[id |-> 1, isActive |-> TRUE, createdAt |-> 0, updatedAt |-> 0],
             [id |-> 2, isActive |-> FALSE, createdAt |-> 0, updatedAt |-> 0]}
       ELSE {}]

\* the rows the application has stored
rowCount(d) ==
  Cardinality(d.pessoas) + Cardinality(d.dadosFuncionais)
  + Cardinality(d.afastamentos) + Cardinality(d.escalas)
  + Cardinality(d.diarias) + Cardinality(d.armamento) + Cardinality(d.users)

Reqs == 1..MaxReqs

Idle == [route |-> "", pc |-> "idle", key |-> 0, data |-> Undefined, status |-> 0]

Init ==
  /\ db = EmptyDb
  /\ clock = 0
  /\ last = NoRequest
  /\ reqs = [r \in Reqs |-> Idle]

Tick ==
  /\ clock < MaxClock
  /\ clock' = clock + 1
  /\ UNCHANGED <<db, last, reqs>>

GetPessoas(session) ==
  Serve("GET /api/pessoas", session, 0, getPessoasHandler(db, <<>>))

GetPessoa(session, id) ==
  Serve("GET /api/pessoas/:id", session, id, getPessoaHandler(db, id))

PostPessoa(session, body) ==
  /\ rowCount(db) < MaxRows
  /\ Serve("POST /api/pessoas", session, IF Has(body, "cpf") THEN body.cpf ELSE "",
           postPessoaHandler(db, body, clock))

PutPessoa(session, id, body) ==
  Serve("PUT /api/pessoas/:id", session, id, putPessoaHandler(db, id, body, clock))

DeletePessoa(session, id) ==
  Serve("DELETE /api/pessoas/:id", session, id, deletePessoaHandler(db, id, clock))

\* a request without a session is answered before its body is read: one body
\* stands for all
BodiesOf(session, bodies) == IF session THEN bodies ELSE {<<>>}

Next ==
  \/ Tick
  \/ \E s \in BOOLEAN : GetPessoas(s)
  \/ \E s \in BOOLEAN, id \in Ids : GetPessoa(s, id)
  \/ \E s \in BOOLEAN : \E body \in BodiesOf(s, PessoaBodies) : PostPessoa(s, body)
  \/ \E s \in BOOLEAN, id \in Ids : \E body \in BodiesOf(s, PessoaPatches) :
       PutPessoa(s, id, body)
  \/ \E s \in BOOLEAN, id \in Ids : DeletePessoa(s, id)

Spec == Init /\ [][Next]_vars

(***************************************************************************)
(* SpecAll: every route of registerRoutes, one request at a time, and the  *)
(* storage operations no route reaches, called directly.                   *)
(***************************************************************************)
GetAuthUser(session, userId) ==
  Serve("GET /api/auth/user", session, userId, getAuthUserHandler(db, userId))

GetDashboardStats(session) ==
  Serve("GET /api/dashboard/stats", session, 0, getDashboardStatsHandler(db, clock))

GetDashboardActivities(session) ==
  Serve("GET /api/dashboard/activities", session, 0, getRecentActivitiesHandler(db))

GetDadosFuncionais(session, pessoaId) ==
  Serve("GET /api/pessoas/:pessoaId/dados-funcionais", session, pessoaId,
        getDadosFuncionaisHandler(db, pessoaId))

PostDadosFuncionais(session, body) ==
  /\ rowCount(db) < MaxRows
  /\ Serve("POST /api/dados-funcionais", session, 0,
           postDadosFuncionaisHandler(db, body, clock))

GetAfastamentos(session, query) ==
  Serve("GET /api/afastamentos", session, 0, getAfastamentosHandler(db, query))

PostAfastamento(session, body) ==
  /\ rowCount(db) < MaxRows
  /\ Serve("POST /api/afastamentos", session, 0, postAfastamentoHandler(db, body, clock))

GetEscalas(session, query) ==
  Serve("GET /api/escalas", session, 0, getEscalasHandler(db, query))

PostEscala(session, body) ==
  /\ rowCount(db) < MaxRows
  /\ Serve("POST /api/escalas", session, 0, postEscalaHandler(db, body, clock))

GetDiarias(session, query) ==
  Serve("GET /api/diarias", session, 0, getDiariasHandler(db, query))

PostDiaria(session, body) ==
  /\ rowCount(db) < MaxRows
  /\ Serve("POST /api/diarias", session, 0, postDiariaHandler(db, body, clock))

GetArmamentos(session, query) ==
  Serve("GET /api/armamentos", session, 0, getArmamentosHandler(db, query))

PostArmamento(session, body) ==
  /\ rowCount(db) < MaxRows
  /\ Serve("POST /api/armamentos", session, 0, postArmamentoHandler(db, body, clock))

lookupRoute(t) ==
  CASE t = "cargos" -> "GET /api/cargos"
    [] t = "unidades" -> "GET /api/unidades"
    [] t = "municipios" -> "GET /api/municipios"
    [] t = "estados" -> "GET /api/estados"
    [] t = "tiposAfastamento" -> "GET /api/tipos-afastamento"
    [] t = "tiposEscala" -> "GET /api/tipos-escala"
    [] t = "statusDiaria" -> "GET /api/status-diaria"
    [] t = "tiposArma" -> "GET /api/tipos-arma"

GetLookup(session, t) == Serve(lookupRoute(t), session, 0, getLookupHandler(db, t))

\* the method and path of every app.get/post/put/delete of registerRoutes
registeredRoutes ==
  {"GET /api/auth/user", "GET /api/dashboard/stats", "GET /api/dashboard/activities",
   "GET /api/pessoas", "GET /api/pessoas/:id", "POST /api/pessoas",
   "PUT /api/pessoas/:id", "DELETE /api/pessoas/:id",
   "GET /api/pessoas/:pessoaId/dados-funcionais", "POST /api/dados-funcionais",
   "GET /api/afastamentos", "POST /api/afastamentos",
   "GET /api/escalas", "POST /api/escalas",
   "GET /api/diarias", "POST /api/diarias",
   "GET /api/armamentos", "POST /api/armamentos"}
  \cup {lookupRoute(t) : t \in Lookups}

\* a request no registered route matches: no handler of registerRoutes runs
\* and no storage operation is called; the answer is that of whatever is
\* mounted after the API routes (Express's 404, or the client's page)
Unmatched(route, key, status) ==
  /\ route \notin registeredRoutes
  /\ last' = [route |-> route, session |-> TRUE, key |-> key, status |-> status,
              message |-> "", calls |-> <<>>, json |-> Undefined]
  /\ UNCHANGED <<db, clock, reqs>>

\* PUT /api/diarias/:id with { statusId }: the request the approval screen of
\* the client sends (DiariasList.tsx, updateStatusMutation)
PutDiaria(id, body, status) == Unmatched("PUT /api/diarias/:id", id, status)

\* a storage operation called outside a route: it commits or throws
Call(result) ==
  /\ db' = result.db
  /\ UNCHANGED <<clock, last, reqs>>

UpsertUser(userData) ==
  /\ rowCount(db) < MaxRows \/ \E u \in db.users : u.id = userData.id
  /\ Call(upsertUser(db, userData, clock))

UpdateDadosFuncionais(id, dados) == Call(updateDadosFuncionais(db, id, dados, clock))

UpdateAfastamento(id, afastamento) == Call(updateAfastamento(db, id, afastamento, clock))

UpdateEscala(id, escala) == Call(updateEscala(db, id, escala, clock))

UpdateDiaria(id, diaria) == Call(updateDiaria(db, id, diaria, clock))

UpdateArmamento(id, armamentoData) == Call(updateArmamento(db, id, armamentoData, clock))

\* the requests and calls SpecAll makes
AllPessoaBodies ==
  {[nome |-> <<"a">>, cpf |-> c, tipoPessoa |-> "S"] : c \in Cpfs}
  \cup {[nome |-> <<"a">>]}
AllPessoaPatches ==
  {[isActive |-> TRUE], [cpf |-> "11111111111"],
   [cpf |-> "0", wrongType |-> {"cpf"}]}
DadosFuncionaisBodies ==
  {[pessoaId |-> 1, matricula |-> "M1"], [matricula |-> "M1"]}
AfastamentoBodies ==
  {[pessoaId |-> 1, dataInicio |-> 0], [pessoaId |-> 2, dataInicio |-> 0, dataFim |-> 1],
   [dataInicio |-> 0]}
EscalaBodies == {[pessoaId |-> 1, unidadeId |-> 1, dataEscala |-> 0], [pessoaId |-> 1]}
DiariaBodies ==
  {[pessoaId |-> 1, statusId |-> 1, destino |-> "X", dataInicio |-> 0, dataFim |-> 1],
   [pessoaId |-> 1]}
ArmamentoBodies ==
  {[numeroSerie |-> "S1", tipoArmaId |-> 1],
   [numeroSerie |-> "S2", tipoArmaId |-> 1, situacao |-> "EM_USO"],
   [tipoArmaId |-> 1]}
UserData == {[id |-> "u1", email |-> "e1"], [id |-> "u2", email |-> "e1"]}
Deactivate == {[isActive |-> FALSE]}

\* a request without a session is answered before its path parameter is read:
\* one id stands for all
IdsOf(session, ids) == IF session THEN ids ELSE {1}

\* the clock stands still: no claim settled under SpecAll reads a timestamp
NextAll ==
  \/ \E s \in BOOLEAN, u \in {"u1"} : GetAuthUser(s, u)
  \/ \E s \in BOOLEAN : GetDashboardStats(s)
  \/ \E s \in BOOLEAN : GetDashboardActivities(s)
  \/ \E s \in BOOLEAN : GetPessoas(s)
  \/ \E s \in BOOLEAN : \E id \in IdsOf(s, Ids) : GetPessoa(s, id)
  \/ \E s \in BOOLEAN : \E body \in BodiesOf(s, AllPessoaBodies) : PostPessoa(s, body)
  \/ \E s \in BOOLEAN : \E id \in IdsOf(s, Ids), body \in BodiesOf(s, AllPessoaPatches) :
       PutPessoa(s, id, body)
  \/ \E s \in BOOLEAN : \E id \in IdsOf(s, Ids) : DeletePessoa(s, id)
  \/ \E s \in BOOLEAN : \E id \in IdsOf(s, Ids) : GetDadosFuncionais(s, id)
  \/ \E s \in BOOLEAN : \E body \in BodiesOf(s, DadosFuncionaisBodies) :
       PostDadosFuncionais(s, body)
  \/ \E s \in BOOLEAN : GetAfastamentos(s, <<>>)
  \/ \E s \in BOOLEAN : \E body \in BodiesOf(s, AfastamentoBodies) :
       PostAfastamento(s, body)
  \/ \E s \in BOOLEAN : GetEscalas(s, <<>>)
  \/ \E s \in BOOLEAN : \E body \in BodiesOf(s, EscalaBodies) : PostEscala(s, body)
  \/ \E s \in BOOLEAN : GetDiarias(s, <<>>)
  \/ \E s \in BOOLEAN : \E body \in BodiesOf(s, DiariaBodies) : PostDiaria(s, body)
  \/ \E s \in BOOLEAN : GetArmamentos(s, <<>>)
  \/ \E s \in BOOLEAN : \E body \in BodiesOf(s, ArmamentoBodies) : PostArmamento(s, body)
  \/ \E s \in BOOLEAN, t \in Lookups : GetLookup(s, t)
  \/ \E status \in {200, 404} : PutDiaria(1, [statusId |-> 2], status)
  \/ \E userData \in UserData : UpsertUser(userData)
  \/ \E id \in Ids, dados \in Deactivate : UpdateDadosFuncionais(id, dados)
  \/ \E id \in Ids, afastamento \in Deactivate : UpdateAfastamento(id, afastamento)
  \/ \E id \in Ids, escala \in Deactivate : UpdateEscala(id, escala)
  \/ \E id \in Ids, diaria \in Deactivate \cup {[statusId |-> 2]} : UpdateDiaria(id, diaria)
  \/ \E id \in Ids, armamentoData \in Deactivate : UpdateArmamento(id, armamentoData)

SpecAll == Init /\ [][NextAll]_vars

(***************************************************************************)
(* SpecConc: overlapping requests on /api/pessoas.  A handler runs up to   *)
(* its next await in one step; the awaited statement runs in the database  *)
(* in a later step, atomically, and the handler goes on from its result.   *)
(* pc names the storage operation the handler is suspended at.             *)
(***************************************************************************)
suspended(route, pc, key, data) ==
  [route |-> route, pc |-> pc, key |-> key, data |-> data, status |-> 0]

\* the response sent: the handler is over and holds its data no more
responded(req, status) ==
  [req EXCEPT !.pc = "done", !.data = Undefined, !.status = status]

\* the handler runs from the middleware to its first await
Begin(r, session, req) ==
  /\ reqs[r].pc = "idle"
  /\ reqs' = [reqs EXCEPT ![r] = IF letThrough(req.route, session)
                                   THEN req ELSE responded(req, 401)]
  /\ UNCHANGED <<db, clock, last>>

\* app.post("/api/pessoas"): parse, then await storage.getPessoaByCpf
PostBegin(r, session, body) ==
  LET pessoaData == insertPessoaSchema(body)
      key == IF Has(body, "cpf") THEN body.cpf ELSE ""
  IN Begin(r, session,
           IF pessoaData.ok
             THEN suspended("POST /api/pessoas", "getPessoaByCpf", key, pessoaData.data)
             ELSE responded(suspended("POST /api/pessoas", "", key, Undefined), 400))

\* getPessoaByCpf answers: 400 when a person was found, else await createPessoa
PostPreCheck(r) ==
  /\ reqs[r].route = "POST /api/pessoas"
  /\ reqs[r].pc = "getPessoaByCpf"
  /\ LET pessoaExistente == getPessoaByCpf(db, reqs[r].data.cpf)
     IN reqs' = [reqs EXCEPT ![r] = IF pessoaExistente # Undefined
                                      THEN responded(@, 400)
                                      ELSE [@ EXCEPT !.pc = "createPessoa"]]
  /\ UNCHANGED <<db, clock, last>>

\* createPessoa answers: 201, or 500 when the insert threw
PostInsert(r) ==
  /\ reqs[r].route = "POST /api/pessoas"
  /\ reqs[r].pc = "createPessoa"
  /\ LET novaPessoa == createPessoa(db, reqs[r].data, clock)
     IN /\ db' = novaPessoa.db
        /\ reqs' = [reqs EXCEPT ![r] =
                      responded(@, IF novaPessoa.ok THEN 201 ELSE 500)]
  /\ UNCHANGED <<clock, last>>

\* app.put("/api/pessoas/:id"): parse, then await storage.updatePessoa
PutBegin(r, session, id, body) ==
  LET pessoaData == insertPessoaSchemaPartial(body)
  IN Begin(r, session,
           IF pessoaData.ok
             THEN suspended("PUT /api/pessoas/:id", "updatePessoa", id, pessoaData.data)
             ELSE responded(suspended("PUT /api/pessoas/:id", "", id, Undefined), 400))

\* updatePessoa answers: 200, or 500 when the update threw
PutUpdate(r) ==
  /\ reqs[r].route = "PUT /api/pessoas/:id"
  /\ reqs[r].pc = "updatePessoa"
  /\ LET pessoaAtualizada == updatePessoa(db, reqs[r].key, reqs[r].data, clock)
     IN /\ db' = pessoaAtualizada.db
        /\ reqs' = [reqs EXCEPT ![r] =
                      responded(@, IF pessoaAtualizada.ok THEN 200 ELSE 500)]
  /\ UNCHANGED <<clock, last>>

\* app.delete("/api/pessoas/:id"): await storage.deletePessoa
DeleteBegin(r, session, id) ==
  Begin(r, session, suspended("DELETE /api/pessoas/:id", "deletePessoa", id, Undefined))

\* deletePessoa answers: 204, or 500 when the update threw
DeleteUpdate(r) ==
  /\ reqs[r].route = "DELETE /api/pessoas/:id"
  /\ reqs[r].pc = "deletePessoa"
  /\ LET done == deletePessoa(db, reqs[r].key, clock)
     IN /\ db' = done.db
        /\ reqs' = [reqs EXCEPT ![r] = responded(@, IF done.ok THEN 204 ELSE 500)]
  /\ UNCHANGED <<clock, last>>

\* the response has been sent: the request is over
Retire(r) ==
  /\ reqs[r].pc = "done"
  /\ reqs' = [reqs EXCEPT ![r] = Idle]
  /\ UNCHANGED <<db, clock, last>>

\* the bodies overlapping requests send: a person with each CPF, active or
\* not; patches of the CPF and of isActive
ConcBodies ==
  {Spread([nome |-> <<"a">>, cpf |-> c, tipoPessoa |-> "S"], a) :
     c \in Cpfs, a \in Opt("isActive", {FALSE})}
  \cup {[nome |-> <<"a">>, tipoPessoa |-> "S"]}

ConcPatches ==
  {[cpf |-> c] : c \in Cpfs} \cup {[isActive |-> TRUE]}

\* the ids overlapping requests name: those a person can have
ConcIds == 1..Cardinality(Cpfs)

\* overlapping requests carry a session; the clock stands still while they
\* overlap
NextConc ==
  \/ \E r \in Reqs, body \in ConcBodies : PostBegin(r, TRUE, body)
  \/ \E r \in Reqs : PostPreCheck(r)
  \/ \E r \in Reqs : PostInsert(r)
  \/ \E r \in Reqs, id \in ConcIds, body \in ConcPatches : PutBegin(r, TRUE, id, body)
  \/ \E r \in Reqs : PutUpdate(r)
  \/ \E r \in Reqs, id \in ConcIds : DeleteBegin(r, TRUE, id)
  \/ \E r \in Reqs : DeleteUpdate(r)
  \/ \E r \in Reqs : Retire(r)

SpecConc == Init /\ [][NextConc]_vars

\* SpecPost: overlapping POST /api/pessoas requests and nothing else
NextPost ==
  \/ \E r \in Reqs, body \in ConcBodies : PostBegin(r, TRUE, body)
  \/ \E r \in Reqs : PostPreCheck(r)
  \/ \E r \in Reqs : PostInsert(r)
  \/ \E r \in Reqs : Retire(r)

SpecPost == Init /\ [][NextPost]_vars

(***************************************************************************)
(* SpecStats: the dashboard counts, over persons of both types, absences   *)
(* with and without an end date and per-diem requests of two statuses.     *)
(***************************************************************************)
StatsPessoaBodies ==
  {[nome |-> <<"a">>, cpf |-> "11111111111", tipoPessoa |-> "S"],
   [nome |-> <<"a">>, cpf |-> "22222222222", tipoPessoa |-> "T"]}

StatsAfastamentoBodies ==
  {Spread([pessoaId |-> 1, dataInicio |-> di], df) :
     di \in {0, 1}, df \in Opt("dataFim", {0, 1})}

StatsDiariaBodies ==
  {[pessoaId |-> 1, statusId |-> st, destino |-> "X", dataInicio |-> 0, dataFim |-> 1] :
     st \in {1, 2}}

NextStats ==
  \/ Tick
  \/ \E body \in StatsPessoaBodies : PostPessoa(TRUE, body)
  \/ \E id \in ConcIds : DeletePessoa(TRUE, id)
  \/ \E body \in StatsAfastamentoBodies : PostAfastamento(TRUE, body)
  \/ \E afastamento \in Deactivate : UpdateAfastamento(1, afastamento)
  \/ \E body \in StatsDiariaBodies : PostDiaria(TRUE, body)
  \/ \E diaria \in Deactivate \cup {[statusId |-> 1], [statusId |-> 2]} :
       UpdateDiaria(1, diaria)
  \/ GetDashboardStats(TRUE)

SpecStats == Init /\ [][NextStats]_vars

(***************************************************************************)
(* Claims checked under Spec.  A claim about what an operation does is     *)
(* stated of the operation applied in every reachable state; its witness   *)
(* is a state the operation has produced.                                  *)
(***************************************************************************)
rowsOf(d, t, col, val) == {r \in d[t] : r[col] = val}

\* the database with every updatedAt blanked
apartFromUpdatedAt(d) ==
  [t \in DOMAIN d |-> {Spread(r, [updatedAt |-> 0]) : r \in d[t]}]

\* C1: for every combination of the filters of getPessoas, getPessoas
\* returns no person whose isActive is false.
C1_GetPessoasOnlyActive ==
  \A f \in PessoaFilters :
    \A p \in Range(getPessoas(db, f)) : p.isActive = TRUE

\* C2: when an active person with CPF c exists, POST /api/pessoas with a
\* valid body carrying c answers the duplicate-CPF 400, calls no insert, and
\* exactly one row (and one listed person) has CPF c afterwards.
C2_DuplicateCpfRejected ==
  \A body \in PessoaBodies :
    (/\ insertPessoaSchema(body).ok
     /\ \E p \in db.pessoas : p.cpf = body.cpf /\ p.isActive = TRUE) =>
      LET out == postPessoaHandler(db, body, clock)
          listed == Range(getPessoasHandler(out.db, <<>>).json)
      IN /\ out.status = 400
         /\ out.message = "CPF ja cadastrado no sistema"
         /\ "createPessoa" \notin Range(out.calls)
         /\ out.db = db
         /\ Cardinality(rowsOf(out.db, "pessoas", "cpf", body.cpf)) = 1
         /\ Cardinality({p \in listed : p.cpf = body.cpf}) = 1

C2_Witness ==
  /\ last.route = "POST /api/pessoas"
  /\ last.status = 400
  /\ last.message = "CPF ja cadastrado no sistema"
  /\ last.calls = <<"getPessoaByCpf">>
  /\ Cardinality(rowsOf(db, "pessoas", "cpf", last.key)) = 1

\* C5: after deletePessoa(id) on an existing person, getPessoaById(id) is
\* undefined and GET /api/pessoas/:id answers 404, while the row is still
\* stored, with isActive = false.
C5_SoftDeleteHidesRow ==
  \A id \in Ids :
    rowsOf(db, "pessoas", "id", id) # {} =>
      LET done == deletePessoa(db, id, clock)
      IN /\ done.ok
         /\ getPessoaById(done.db, id) = Undefined
         /\ getPessoaHandler(done.db, id).status = 404
         /\ \E p \in done.db.pessoas : p.id = id /\ p.isActive = FALSE

C5_Witness ==
  /\ last.route = "DELETE /api/pessoas/:id"
  /\ last.status = 204
  /\ \E p \in db.pessoas : p.id = last.key /\ p.isActive = FALSE
  /\ getPessoaById(db, last.key) = Undefined

\* C8 as claimed: for every input the insert schema accepts, createPessoa
\* followed by getPessoaByCpf(data.cpf) returns the row createPessoa
\* returned.
C8_ReadYourWritesAnyInput ==
  \A body \in PessoaBodies :
    insertPessoaSchema(body).ok =>
      LET data == insertPessoaSchema(body).data
          created == createPessoa(db, data, clock)
      IN created.ok =>
           getPessoaByCpf(created.db, data.cpf) = first(created.rows)

\* C8 amended: the same, for the accepted inputs that do not set isActive
\* to false.
C8_ReadYourWritesActiveInput ==
  \A body \in PessoaBodies :
    (/\ insertPessoaSchema(body).ok
     /\ Has(body, "isActive") => body.isActive = TRUE) =>
      LET data == insertPessoaSchema(body).data
          created == createPessoa(db, data, clock)
      IN created.ok =>
           getPessoaByCpf(created.db, data.cpf) = first(created.rows)

C8_Witness ==
  /\ last.route = "POST /api/pessoas"
  /\ last.status = 201
  /\ last.calls = <<"getPessoaByCpf", "createPessoa">>
  /\ getPessoaByCpf(db, last.key) = last.json
  /\ Cardinality(db.pessoas) = 2

\* C9: the clock never going backwards, updatePessoa(id, data) leaves the
\* row's updatedAt at or after its value before the call, whatever partial
\* body the route accepts (a body naming updatedAt included).
C9_UpdatedAtAdvances ==
  \A id \in Ids, body \in PessoaPatches :
    LET out == putPessoaHandler(db, id, body, clock)
    IN \A p \in db.pessoas, q \in out.db.pessoas :
         q.id = p.id => q.updatedAt >= p.updatedAt

C9_Witness ==
  /\ last.route = "PUT /api/pessoas/:id"
  /\ last.status = 200
  /\ last.json # Undefined
  /\ last.json.updatedAt > last.json.createdAt

\* C10: deletePessoa(id) twice leaves what deletePessoa(id) once leaves, the
\* updatedAt stamp apart, and neither call throws; for an id with no row the
\* call changes nothing and DELETE /api/pessoas/:id answers 204.
C10_DeleteIdempotent ==
  \A id \in Ids, later \in clock..MaxClock :
    LET once == deletePessoa(db, id, clock)
        twice == deletePessoa(once.db, id, later)
        out == deletePessoaHandler(db, id, clock)
    IN /\ once.ok /\ twice.ok
       /\ apartFromUpdatedAt(twice.db) = apartFromUpdatedAt(once.db)
       /\ out.status = 204
       /\ rowsOf(db, "pessoas", "id", id) = {} => out.db = db

C10_Witness ==
  /\ last.route = "DELETE /api/pessoas/:id"
  /\ last.status = 204
  /\ rowsOf(db, "pessoas", "id", last.key) = {}
  /\ db.pessoas # {}

(***************************************************************************)
(* Claims checked under SpecPost and SpecConc.                             *)
(***************************************************************************)
activeWithCpf(d, cpf) == {p \in d.pessoas : p.cpf = cpf /\ p.isActive = TRUE}

\* C3: of two overlapping POST /api/pessoas with the same CPF, both past the
\* pre-check or not, at most one is answered 201, and at most one person row
\* has that CPF.
C3_OneWinnerPerCpf ==
  /\ \A r1, r2 \in Reqs :
       (/\ r1 # r2
        /\ reqs[r1].route = "POST /api/pessoas" /\ reqs[r2].route = "POST /api/pessoas"
        /\ reqs[r1].key = reqs[r2].key) =>
         ~(reqs[r1].status = 201 /\ reqs[r2].status = 201)
  /\ \A c \in Cpfs : Cardinality(rowsOf(db, "pessoas", "cpf", c)) <= 1

\* both requests passed the pre-check (the person found is active, so the
\* loser was not stopped by it); the insert of the second threw
C3_Witness ==
  \E r1, r2 \in Reqs :
    /\ reqs[r1].route = "POST /api/pessoas" /\ reqs[r2].route = "POST /api/pessoas"
    /\ reqs[r1].key = reqs[r2].key
    /\ reqs[r1].status = 201 /\ reqs[r2].status = 500
    /\ activeWithCpf(db, reqs[r1].key) # {}

\* C4: in every state POST, PUT and DELETE requests on /api/pessoas reach, in
\* any interleaving, no two persons with isActive = true have the same CPF.
C4_ActiveCpfUnique ==
  \A p, q \in db.pessoas :
    (p.isActive = TRUE /\ q.isActive = TRUE /\ p.cpf = q.cpf) => p = q

\* a PUT that set cpf to the CPF of another person was refused
C4_Witness ==
  /\ \E r \in Reqs : reqs[r].route = "PUT /api/pessoas/:id" /\ reqs[r].status = 500
  /\ \E p, q \in db.pessoas : p # q /\ p.isActive = TRUE /\ q.isActive = TRUE

(***************************************************************************)
(* Claims checked under SpecAll.                                           *)
(***************************************************************************)
idsOf(tbl) == {r.id : r \in tbl}

\* C6: no storage operation removes a row: the set of row ids of each table
\* only grows.
C6_RowsNeverRemoved ==
  [][\A t \in Tables : idsOf(db[t]) \subseteq idsOf(db'[t])]_vars

\* a person and a row of another table were soft-deleted and are still stored
C6_Witness ==
  /\ \E p \in db.pessoas : p.isActive = FALSE
  /\ \E t \in referencesPessoas : \E r \in db[t] : r.isActive = FALSE

\* C7: a request the authentication middleware does not let through is
\* answered 401 and causes no storage operation, on every route.
C7_NoStorageWithoutSession ==
  (last.route # "" /\ ~isAuthenticated(last.session)) =>
    last.calls = <<>> /\ last.status = 401

C7_Witness ==
  /\ last.route = "GET /api/cargos"
  /\ ~isAuthenticated(last.session)
  /\ last.status = 401
  /\ rowCount(db) > 0

(***************************************************************************)
(* getPessoas against the filter contract (checked under Spec).            *)
(***************************************************************************)
\* sub occurs in s as a contiguous run
Contains(s, sub) ==
  \E i \in 0..(Len(s) - Len(sub)) : SubSeq(s, i + 1, i + Len(sub)) = sub

\* the filter k was given a value (an empty one is none)
supplied(filters, k, empty) == Has(filters, k) /\ filters[k] # empty

\* the active persons that satisfy every supplied filter
matchingPessoas(d, f) ==
  {p \in d.pessoas :
     /\ p.isActive = TRUE
     /\ supplied(f, "nome", <<>>) => Contains(p.nome, f.nome)
     /\ supplied(f, "cpf", "") => p.cpf = f.cpf
     /\ supplied(f, "tipoPessoa", "") => p.tipoPessoa = f.tipoPessoa}

descending(seq, col) ==
  \A i, j \in DOMAIN seq : i < j => seq[i][col] >= seq[j][col]

\* C11: for every combination of filters getPessoas returns exactly the
\* active persons that satisfy all the supplied filters at once, each once,
\* ordered by createdAt descending.
C11_GetPessoasAllFilters ==
  \A f \in PessoaFilters :
    LET out == getPessoas(db, f)
    IN /\ Range(out) = matchingPessoas(db, f)
       /\ Len(out) = Cardinality(matchingPessoas(db, f))
       /\ descending(out, "createdAt")

(***************************************************************************)
(* updatePessoa on an id that names no active person (checked under Spec). *)
(***************************************************************************)
resolvesToActive(d, id) == \E p \in d.pessoas : p.id = id /\ p.isActive = TRUE

\* C12: when the id names no active person (no row, or a soft-deleted row),
\* PUT /api/pessoas/:id with a body the schema accepts changes no stored row,
\* raises no error and answers with a status that is not an error status.
C12_UpdateOfInactiveIsNoOp ==
  \A id \in Ids, body \in PessoaPatches :
    (~resolvesToActive(db, id) /\ insertPessoaSchemaPartial(body).ok) =>
      LET out == putPessoaHandler(db, id, body, clock)
      IN /\ updatePessoa(db, id, insertPessoaSchemaPartial(body).data, clock).ok
         /\ out.db = db
         /\ out.status < 400

(***************************************************************************)
(* Error handling of the create and update routes (checked under SpecAll). *)
(***************************************************************************)
\* the answer to a create request whose unique key is taken: 400, nothing
\* inserted, the insert not even called
rejectedByPreCheck(d, out, create) ==
  /\ out.status = 400
  /\ out.db = d
  /\ create \notin Range(out.calls)

\* C13: a create request whose unique key already exists is detected by a
\* pre-check and answered 400 without inserting: CPF on POST /api/pessoas,
\* matricula on POST /api/dados-funcionais, numeroSerie on POST
\* /api/armamentos.
C13_DuplicateKeyPreChecked ==
  /\ \A body \in AllPessoaBodies :
       (insertPessoaSchema(body).ok /\ rowsOf(db, "pessoas", "cpf", body.cpf) # {}) =>
         rejectedByPreCheck(db, postPessoaHandler(db, body, clock), "createPessoa")
  /\ \A body \in DadosFuncionaisBodies :
       (/\ insertSchema("dadosFuncionais", body).ok
        /\ rowsOf(db, "dadosFuncionais", "matricula", body.matricula) # {}) =>
         rejectedByPreCheck(db, postDadosFuncionaisHandler(db, body, clock),
                            "createDadosFuncionais")
  /\ \A body \in ArmamentoBodies :
       (/\ insertSchema("armamento", body).ok
        /\ rowsOf(db, "armamento", "numeroSerie", body.numeroSerie) # {}) =>
         rejectedByPreCheck(db, postArmamentoHandler(db, body, clock),
                            "createArmamento")

\* the answer to a body the schema refuses
refused(d, out) ==
  /\ out.status = 400
  /\ out.message = "Dados invalidos"
  /\ out.calls = <<>>
  /\ out.db = d

\* C14: on every create route and on PUT /api/pessoas/:id a body that fails
\* schema validation is answered 400, no storage operation is called and the
\* stored state is unchanged.
C14_InvalidBodyRefused ==
  /\ \A body \in AllPessoaBodies :
       ~insertPessoaSchema(body).ok => refused(db, postPessoaHandler(db, body, clock))
  /\ \A id \in Ids, body \in AllPessoaPatches :
       ~insertPessoaSchemaPartial(body).ok =>
         refused(db, putPessoaHandler(db, id, body, clock))
  /\ \A body \in DadosFuncionaisBodies :
       ~insertSchema("dadosFuncionais", body).ok =>
         refused(db, postDadosFuncionaisHandler(db, body, clock))
  /\ \A body \in AfastamentoBodies :
       ~insertSchema("afastamentos", body).ok =>
         refused(db, postAfastamentoHandler(db, body, clock))
  /\ \A body \in EscalaBodies :
       ~insertSchema("escalas", body).ok => refused(db, postEscalaHandler(db, body, clock))
  /\ \A body \in DiariaBodies :
       ~insertSchema("diarias", body).ok => refused(db, postDiariaHandler(db, body, clock))
  /\ \A body \in ArmamentoBodies :
       ~insertSchema("armamento", body).ok =>
         refused(db, postArmamentoHandler(db, body, clock))

\* a PUT on an existing person was refused for its body
C14_Witness ==
  /\ last.route = "PUT /api/pessoas/:id"
  /\ last.session
  /\ last.status = 400
  /\ last.calls = <<>>
  /\ \E p \in db.pessoas : p.id = last.key

\* how many times a handler called the storage operation op
timesCalled(out, op) == Cardinality({i \in DOMAIN out.calls : out.calls[i] = op})

\* the answer of a handler whose storage operation op threw
failed(d, out, op) ==
  /\ out.status = 500
  /\ timesCalled(out, op) = 1
  /\ out.db = d

\* C15: whenever a storage operation throws inside a route handler the
\* request is answered 500, the operation is not tried again and the stored
\* state is the state before the request.
C15_StorageErrorIs500 ==
  /\ \A id \in Ids, body \in AllPessoaPatches :
       LET pessoaData == insertPessoaSchemaPartial(body)
       IN (pessoaData.ok /\ ~updatePessoa(db, id, pessoaData.data, clock).ok) =>
            failed(db, putPessoaHandler(db, id, body, clock), "updatePessoa")
  /\ \A body \in AllPessoaBodies :
       LET pessoaData == insertPessoaSchema(body)
       IN (/\ pessoaData.ok
           /\ getPessoaByCpf(db, body.cpf) = Undefined
           /\ ~createPessoa(db, pessoaData.data, clock).ok) =>
            failed(db, postPessoaHandler(db, body, clock), "createPessoa")
  /\ \A id \in Ids :
       ~deletePessoa(db, id, clock).ok =>
         failed(db, deletePessoaHandler(db, id, clock), "deletePessoa")
  /\ \A body \in DadosFuncionaisBodies :
       LET dadosData == insertSchema("dadosFuncionais", body)
       IN (dadosData.ok /\ ~createDadosFuncionais(db, dadosData.data, clock).ok) =>
            failed(db, postDadosFuncionaisHandler(db, body, clock),
                   "createDadosFuncionais")
  /\ \A body \in AfastamentoBodies :
       LET afastamentoData == insertSchema("afastamentos", body)
       IN (afastamentoData.ok /\ ~createAfastamento(db, afastamentoData.data, clock).ok) =>
            failed(db, postAfastamentoHandler(db, body, clock), "createAfastamento")
  /\ \A body \in EscalaBodies :
       LET escalaData == insertSchema("escalas", body)
       IN (escalaData.ok /\ ~createEscala(db, escalaData.data, clock).ok) =>
            failed(db, postEscalaHandler(db, body, clock), "createEscala")
  /\ \A body \in DiariaBodies :
       LET diariaData == insertSchema("diarias", body)
       IN (diariaData.ok /\ ~createDiaria(db, diariaData.data, clock).ok) =>
            failed(db, postDiariaHandler(db, body, clock), "createDiaria")
  /\ \A body \in ArmamentoBodies :
       LET armamentoData == insertSchema("armamento", body)
       IN (armamentoData.ok /\ ~createArmamento(db, armamentoData.data, clock).ok) =>
            failed(db, postArmamentoHandler(db, body, clock), "createArmamento")

\* a PUT that set cpf to the CPF of another person: the unique constraint
\* threw, the answer was 500 and both persons are stored as they were
C15_Witness ==
  /\ last.route = "PUT /api/pessoas/:id"
  /\ last.status = 500
  /\ last.calls = <<"updatePessoa">>
  /\ \E p, q \in db.pessoas : p.id = last.key /\ q.id # p.id /\ q.cpf # p.cpf

(***************************************************************************)
(* The list queries of the other entities (checked under SpecAll).         *)
(***************************************************************************)
AfastamentoFilters ==
  {Spread(p, a) : p \in Opt("pessoaId", {1, 2}), a \in Opt("ativo", BOOLEAN)}

EscalaFilters ==
  {Spread(Spread(dt, p), u) :
     dt \in Opt("data", {0}), p \in Opt("pessoaId", {1}), u \in Opt("unidadeId", {1})}

DiariaFilters ==
  {Spread(Spread(Spread(p, st), di), df) :
     p \in Opt("pessoaId", {1}), st \in Opt("statusId", {1, 2}),
     di \in Opt("dataInicio", {0, 1}), df \in Opt("dataFim", {0, 1})}

ArmamentoFilters ==
  {Spread(st, ta) :
     st \in Opt("situacao", {"DISPONIVEL", "EM_USO"}), ta \in Opt("tipoArmaId", {1})}

onlyActive(rows) == \A r \in rows : r.isActive = TRUE

\* C16: getAfastamentos, getEscalas, getDiarias, getArmamentos and the eight
\* lookup lists return only rows with isActive = true, for every combination
\* of the query's optional filters.
C16_OtherListsOnlyActive ==
  /\ \A f \in AfastamentoFilters : onlyActive(Range(getAfastamentos(db, f)))
  /\ \A f \in EscalaFilters : onlyActive(Range(getEscalas(db, f)))
  /\ \A f \in DiariaFilters : onlyActive(Range(getDiarias(db, f)))
  /\ \A f \in ArmamentoFilters : onlyActive(Range(getArmamentos(db, f)))
  /\ \A t \in Lookups : onlyActive(getLookup(db, t))

(***************************************************************************)
(* The routes of the other entities (checked under SpecAll).               *)
(***************************************************************************)
\* C17: the route layer exposes PUT and DELETE for every entity: an
\* authenticated PUT /api/diarias/:id with the body {statusId: 2}, on an
\* existing per-diem request, reaches updateDiaria and leaves the stored
\* statusId of that request at 2.
C17_PutDiariaUpdatesStatus ==
  (last.route = "PUT /api/diarias/:id" /\ last.session) =>
    \A diaria \in db.diarias :
      diaria.id = last.key =>
        /\ "updateDiaria" \in Range(last.calls)
        /\ diaria.statusId = 2

(***************************************************************************)
(* The dashboard counts (checked under SpecStats).                         *)
(***************************************************************************)
\* the days an evaluation may fall on: before, within and after the dates
\* the bodies carry
Dates == 0..2

servedStats == last.route = "GET /api/dashboard/stats" /\ last.status = 200

\* C18: totalServidores is the number of persons with isActive = true and
\* tipoPessoa = "S": soft-deleted persons and persons of type "T" are not
\* counted.
C18_TotalServidores ==
  \A hoje \in Dates :
    getDashboardStats(db, hoje).totalServidores =
      Cardinality({p \in db.pessoas : p.isActive = TRUE /\ p.tipoPessoa = "S"})

\* the dashboard answered 1 while a person of type "T" is stored beside the
\* one counted
C18_Witness ==
  /\ servedStats
  /\ last.json.totalServidores = 1
  /\ \E p \in db.pessoas : p.tipoPessoa = "T" /\ p.isActive = TRUE
  /\ \E p \in db.pessoas : p.tipoPessoa = "S" /\ p.isActive = TRUE

\* the absences current on the day hoje
currentOn(d, hoje) ==
  {a \in d.afastamentos :
     /\ a.isActive = TRUE
     /\ a.dataInicio <= hoje
     /\ a.dataFim = Null \/ a.dataFim >= hoje}

\* C19: for every evaluation date, afastamentosAtivos is the number of
\* absences with isActive = true, dataInicio <= today and dataFim null or
\* >= today.
C19_AfastamentosAtivos ==
  \A hoje \in Dates :
    getDashboardStats(db, hoje).afastamentosAtivos = Cardinality(currentOn(db, hoje))

\* the dashboard counted an absence that has no end date
C19_Witness ==
  /\ servedStats
  /\ last.json.afastamentosAtivos = 1
  /\ \E a \in db.afastamentos : a.dataFim = Null /\ a.isActive = TRUE
  /\ clock > 0

\* the database with the row of status_diaria that has id 1 renamed and
\* its isActive flag set
withStatusRow(d, nome, flag) ==
  [d EXCEPT !.statusDiaria =
     {Spread(st, IF st.id = 1 THEN [nome |-> nome, isActive |-> flag]
                 ELSE [nome |-> "Aprovada"]) : st \in @}]

\* C20: diariasPendentes is the number of per-diem rows with isActive = true
\* and statusId = 1, whatever the name and the isActive flag of the status
\* row with id 1.
C20_DiariasPendentes ==
  \A nome \in {"Pendente", "Paga"}, flag \in BOOLEAN :
    getDashboardStats(withStatusRow(db, nome, flag), clock).diariasPendentes =
      Cardinality({x \in db.diarias : x.isActive = TRUE /\ x.statusId = 1})

\* the dashboard counted the one request of status 1
C20_Witness ==
  /\ servedStats
  /\ last.json.diariasPendentes = 1
  /\ \E x \in db.diarias : x.isActive = TRUE /\ x.statusId = 1

(***************************************************************************)
(* SpecFeed: the activity feed over more persons and per-diem requests     *)
(* than its two queries keep.  Each registration is of a person not yet    *)
(* on file; the per-diem requests are those of the person with id 1, who   *)
(* may be soft-deleted.                                                    *)
(***************************************************************************)
MaxDiarias == 3

FeedCpfs == <<"11111111111", "22222222222", "33333333333", "44444444444">>

\* the body that registers the k-th person, named after their CPF
FeedPessoaBody(k) == [nome |-> <<FeedCpfs[k]>>, cpf |-> FeedCpfs[k], tipoPessoa |-> "S"]

FeedDiariaBody ==
  [pessoaId |-> 1, statusId |-> 1, destino |-> "X", dataInicio |-> 0, dataFim |-> 1]

FeedPostPessoa ==
  /\ Cardinality(db.pessoas) < Len(FeedCpfs)
  /\ LET body == FeedPessoaBody(Cardinality(db.pessoas) + 1)
     IN Serve("POST /api/pessoas", TRUE, body.cpf, postPessoaHandler(db, body, clock))

FeedPostDiaria ==
  /\ Cardinality(db.diarias) < MaxDiarias
  /\ Serve("POST /api/diarias", TRUE, 0, postDiariaHandler(db, FeedDiariaBody, clock))

NextFeed ==
  \/ Tick
  \/ FeedPostPessoa
  \/ FeedPostDiaria
  \/ DeletePessoa(TRUE, 1)
  \/ GetDashboardActivities(TRUE)

SpecFeed == Init /\ [][NextFeed]_vars

(***************************************************************************)
(* Claims checked under SpecFeed.                                          *)
(***************************************************************************)
\* the number of entries of the feed with the given tipo
entriesOf(feed, tipo) == Cardinality({i \in DOMAIN feed : feed[i].tipo = tipo})

\* the feed answered by the last request
servedFeed ==
  /\ last.route = "GET /api/dashboard/activities"
  /\ last.status = 200

\* C21: getRecentActivities returns at most 5 entries, at most 3 of tipo
\* pessoa_criada and at most 2 of tipo diaria_criada, in non-increasing
\* order of data.
C21_FeedBoundedAndSorted ==
  LET feed == getRecentActivities(db)
  IN /\ Len(feed) <= 5
     /\ entriesOf(feed, "pessoa_criada") <= 3
     /\ entriesOf(feed, "diaria_criada") <= 2
     /\ \A i \in DOMAIN feed : feed[i].tipo \in {"pessoa_criada", "diaria_criada"}
     /\ \A i, j \in DOMAIN feed : i < j => feed[i].data >= feed[j].data

\* the feed was served from more active persons and per-diem requests than
\* it keeps, created at different times
C21_Witness ==
  /\ servedFeed
  /\ Cardinality({p \in db.pessoas : p.isActive = TRUE}) > 3
  /\ Cardinality({x \in db.diarias : x.isActive = TRUE}) > 2
  /\ Len(last.json) = 5
  /\ last.json[1].data > last.json[5].data

\* C27: no entry of getRecentActivities carries, in pessoaNome or in
\* descricao, the name of a person whose isActive is false; this covers the
\* diaria_criada entries, whose pessoaNome is that of the joined person.
C27_FeedHidesSoftDeleted ==
  \A p \in db.pessoas :
    p.isActive = FALSE =>
      LET feed == getRecentActivities(db)
      IN \A i \in DOMAIN feed :
           /\ feed[i].pessoaNome # p.nome
           /\ \A k \in DOMAIN feed[i].descricao : feed[i].descricao[k] \notin Range(p.nome)

(***************************************************************************)
(* The filters of the per-diem and absence lists.                          *)
(***************************************************************************)
\* the active per-diem requests that satisfy every supplied filter
matchingDiarias(d, f) ==
  {x \in d.diarias :
     /\ x.isActive = TRUE
     /\ supplied(f, "pessoaId", 0) => x.pessoaId = f.pessoaId
     /\ supplied(f, "statusId", 0) => x.statusId = f.statusId
     /\ Has(f, "dataInicio") => x.dataInicio >= f.dataInicio
     /\ Has(f, "dataFim") => x.dataFim <= f.dataFim}

\* C22: getDiarias with a date range returns exactly the active per-diem
\* requests with dataInicio >= the filter's dataInicio and dataFim <= the
\* filter's dataFim, and with pessoaId or statusId supplied as well, only
\* those that also match them (checked under SpecAll).
C22_GetDiariasDateRange ==
  \A f \in DiariaFilters :
    Has(f, "dataInicio") /\ Has(f, "dataFim") =>
      Range(getDiarias(db, f)) = matchingDiarias(db, f)

\* C23: getAfastamentos called with ativo = true returns only absences that
\* are current today: dataInicio <= today and dataFim null or >= today
\* (checked under SpecStats).
C23_AtivoFilterIsCurrent ==
  \A f \in AfastamentoFilters :
    Has(f, "ativo") /\ f.ativo = TRUE =>
      Range(getAfastamentos(db, f)) \subseteq currentOn(db, clock)

(***************************************************************************)
(* What the writes on a person leave alone (checked under SpecAll).        *)
(***************************************************************************)
\* the partial bodies that pass insertPessoaSchema.partial(), as parsed
PessoaPartials ==
  {insertPessoaSchemaPartial(body).data :
     body \in {b \in PessoaPatches : insertPessoaSchemaPartial(b).ok}}

\* row q is row p with at most the columns cols changed
sameApartFrom(p, q, cols) ==
  /\ DOMAIN q = DOMAIN p
  /\ \A k \in DOMAIN p \ cols : q[k] = p[k]

\* database e is database d with at most the columns cols of the person
\* with that id changed
onlyPessoaChanged(d, e, id, cols) ==
  /\ \A t \in Tables \ {"pessoas"} : e[t] = d[t]
  /\ {p \in e.pessoas : p.id # id} = {p \in d.pessoas : p.id # id}
  /\ \A p \in d.pessoas :
       p.id = id => \E q \in e.pessoas : q.id = id /\ sameApartFrom(p, q, cols)
  /\ Cardinality(e.pessoas) = Cardinality(d.pessoas)

\* C24: updatePessoa(id, partial) on an existing person changes only the
\* fields named in partial and updatedAt of the row with that id; every
\* other field of that row, every other person row and every row of every
\* other table is unchanged.  The named fields take the supplied values.
C24_UpdatePessoaFrame ==
  \A id \in Ids, partial \in PessoaPartials :
    (\E p \in db.pessoas : p.id = id) =>
      LET done == updatePessoa(db, id, partial, clock)
      IN IF done.ok
           THEN /\ onlyPessoaChanged(db, done.db, id, DOMAIN partial \cup {"updatedAt"})
                /\ \A q \in done.db.pessoas :
                     q.id = id => \A k \in DOMAIN partial : q[k] = partial[k]
           ELSE done.db = db

\* a PUT renamed one of two persons
C24_Witness ==
  /\ last.route = "PUT /api/pessoas/:id"
  /\ last.status = 200
  /\ last.json # Undefined
  /\ Cardinality(db.pessoas) = 2
  /\ \E p \in db.pessoas : p.id # last.key

\* the active rows of the tables that reference pessoas, of the person id
referencing(d, id) ==
  {r \in d.dadosFuncionais \cup d.afastamentos \cup d.escalas \cup d.diarias :
     r.pessoaId = id /\ r.isActive = TRUE}

\* C28: deletePessoa(id) changes only isActive and updatedAt of the person
\* row with that id: the rows of dadosFuncionais, afastamentos, escalas and
\* diarias that reference the person are unchanged, are still returned by
\* their queries and are still counted by getDashboardStats.
C28_DeletePessoaFrame ==
  \A id \in Ids :
    LET done == deletePessoa(db, id, clock)
        before == getDashboardStats(db, clock)
        after == getDashboardStats(done.db, clock)
    IN /\ done.ok
       /\ onlyPessoaChanged(db, done.db, id, {"isActive", "updatedAt"})
       /\ referencing(done.db, id) = referencing(db, id)
       /\ getDadosFuncionaisByPessoaId(done.db, id) = getDadosFuncionaisByPessoaId(db, id)
       /\ \A f \in {<<>>, [pessoaId |-> id]} :
            /\ getAfastamentos(done.db, f) = getAfastamentos(db, f)
            /\ getEscalas(done.db, f) = getEscalas(db, f)
            /\ getDiarias(done.db, f) = getDiarias(db, f)
       /\ after.afastamentosAtivos = before.afastamentosAtivos
       /\ after.diariasPendentes = before.diariasPendentes
       /\ after.armamentoEmUso = before.armamentoEmUso

\* a person who has an active referencing row was soft-deleted
C28_Witness ==
  /\ last.route = "DELETE /api/pessoas/:id"
  /\ last.status = 204
  /\ \E p \in db.pessoas : p.id = last.key /\ p.isActive = FALSE
  /\ referencing(db, last.key) # {}

\* C25: soft delete is permanent through the API: a person whose isActive
\* is false (under SpecAll, one for whom DELETE /api/pessoas/:id was
\* answered 204) is not made active again by any request, so
\* getPessoaById(id) keeps returning undefined.
C25_SoftDeletePermanent ==
  [][\A p \in db.pessoas :
       p.isActive = FALSE =>
         /\ getPessoaById(db', p.id) = Undefined
         /\ \A q \in db'.pessoas : q.id = p.id => q.isActive = FALSE]_vars

\* C26: with no concurrent request, whenever the pre-check of POST
\* /api/pessoas finds no person (getPessoaByCpf(cpf) returns undefined), the
\* createPessoa that follows succeeds and the answer is 201, also when a
\* soft-deleted person carries that CPF (checked under Spec).
C26_PreCheckAgreesWithConstraint ==
  \A body \in PessoaBodies :
    LET parsed == insertPessoaSchema(body)
    IN parsed.ok /\ getPessoaByCpf(db, parsed.data.cpf) = Undefined =>
         /\ createPessoa(db, parsed.data, clock).ok
         /\ postPessoaHandler(db, body, clock).status = 201

(***************************************************************************)
(* SpecPut: overlapping PUT /api/pessoas/:id requests that name disjoint   *)
(* fields, on persons registered by POST /api/pessoas.                     *)
(***************************************************************************)
PutSeedBodies == {[nome |-> <<"a">>, cpf |-> c, tipoPessoa |-> "S"] : c \in Cpfs}

\* two partial bodies with no field in common, each with a value that no
\* registration writes
PutPatches == {[nome |-> <<"a", "b">>], [isActive |-> FALSE]}

NextPut ==
  \/ \E r \in Reqs, body \in PutSeedBodies : PostBegin(r, TRUE, body)
  \/ \E r \in Reqs : PostPreCheck(r)
  \/ \E r \in Reqs : PostInsert(r)
  \/ \E r \in Reqs, id \in ConcIds, body \in PutPatches : PutBegin(r, TRUE, id, body)
  \/ \E r \in Reqs : PutUpdate(r)
  \/ \E r \in Reqs : Retire(r)

SpecPut == Init /\ [][NextPut]_vars

\* request r is a PUT on a person that its update answers with 200 in this
\* step
putCompletes(r) ==
  /\ reqs[r].route = "PUT /api/pessoas/:id"
  /\ reqs[r].pc = "updatePessoa"
  /\ reqs'[r].pc = "done"
  /\ reqs'[r].status = 200

\* C30: no lost update between PUT /api/pessoas/:id requests that name
\* disjoint fields, under every interleaving: the update of a request
\* leaves its fields at the supplied values, and a field that holds the
\* value one request supplied is not changed by the update of a request
\* that does not name it; so once both requests have completed, both sets
\* of fields hold their new values.
C30_NoLostUpdate ==
  [][/\ \A r \in Reqs :
          putCompletes(r) =>
            \A q \in db'.pessoas :
              q.id = reqs[r].key => \A k \in DOMAIN reqs[r].data : q[k] = reqs[r].data[k]
     /\ \A p \in db.pessoas, q \in db'.pessoas :
          q.id = p.id =>
            \A patch \in PutPatches :
              \A k \in DOMAIN patch : p[k] = patch[k] => q[k] = p[k]]_vars

\* two requests with disjoint fields on the same person have both been
\* answered 200, and the person carries the fields of both
C30_Witness ==
  \E r1, r2 \in Reqs :
    /\ r1 # r2
    /\ \A r \in {r1, r2} :
         /\ reqs[r].route = "PUT /api/pessoas/:id"
         /\ reqs[r].pc = "done"
         /\ reqs[r].status = 200
    /\ reqs[r1].key = reqs[r2].key
    /\ \E p \in db.pessoas :
         /\ p.id = reqs[r1].key
         /\ p.nome = <<"a", "b">>
         /\ p.isActive = FALSE

(***************************************************************************)
(* SpecSnap: GET /api/dashboard/stats overlapping with writes.             *)
(* getDashboardStats awaits its four count queries one after the other;    *)
(* a write of another request may run between any two of them.  Each       *)
(* request in flight also keeps, for the claim below, the counts of every  *)
(* database state that has existed since it began.                         *)
(***************************************************************************)
StatsSteps == <<"totalServidores", "afastamentosAtivos", "diariasPendentes", "armamentoEmUso">>

\* the four counts as they are in database d on day hoje
countsIn(d, hoje) ==
  [totalServidores |->
     Cardinality({p \in d.pessoas : p.isActive = TRUE /\ p.tipoPessoa = "S"}),
   afastamentosAtivos |-> Cardinality(currentOn(d, hoje)),
   diariasPendentes |->
     Cardinality({x \in d.diarias : x.isActive = TRUE /\ x.statusId = 1}),
   armamentoEmUso |->
     Cardinality({a \in d.armamento : a.isActive = TRUE /\ a.situacao = "EM_USO"})]

statsInFlight(req) ==
  /\ req.route = "GET /api/dashboard/stats"
  /\ req.pc \in Range(StatsSteps)

\* app.get("/api/dashboard/stats"): await storage.getDashboardStats(), which
\* runs up to its first await
StatsBegin(r) ==
  Begin(r, TRUE, suspended("GET /api/dashboard/stats", StatsSteps[1], 0,
                           [stats |-> <<>>, seen |-> {countsIn(db, clock)}]))

\* the k-th count query answers; after the fourth, res.json(stats)
StatsCount(r, k) ==
  /\ reqs[r].route = "GET /api/dashboard/stats"
  /\ reqs[r].pc = StatsSteps[k]
  /\ LET value == getDashboardStats(db, clock)[StatsSteps[k]]
         data == [reqs[r].data EXCEPT
                    !.stats = Spread(@, [c \in {StatsSteps[k]} |-> value])]
     IN reqs' = [reqs EXCEPT ![r] =
                   IF k < Len(StatsSteps)
                     THEN [@ EXCEPT !.pc = StatsSteps[k + 1], !.data = data]
                     ELSE [@ EXCEPT !.pc = "done", !.status = 200, !.data = data]]
  /\ UNCHANGED <<db, clock, last>>

\* a write request served while the counts are under way
SnapWrite(route, key, out) ==
  /\ rowCount(db) < MaxRows
  /\ last' = answered(route, TRUE, key, out)
  /\ db' = out.db
  /\ reqs' = [r \in Reqs |->
                IF statsInFlight(reqs[r])
                  THEN [reqs[r] EXCEPT !.data.seen = @ \cup {countsIn(out.db, clock)}]
                  ELSE reqs[r]]
  /\ UNCHANGED clock

SnapPessoaBodies == {[nome |-> <<"a">>, cpf |-> "11111111111", tipoPessoa |-> "S"]}

SnapArmamentoBodies ==
  {[numeroSerie |-> "S1", tipoArmaId |-> 1],
   [numeroSerie |-> "S2", tipoArmaId |-> 1, situacao |-> "EM_USO"]}

NextSnap ==
  \/ \E r \in Reqs : StatsBegin(r)
  \/ \E r \in Reqs, k \in DOMAIN StatsSteps : StatsCount(r, k)
  \/ \E body \in SnapPessoaBodies :
       SnapWrite("POST /api/pessoas", body.cpf, postPessoaHandler(db, body, clock))
  \/ \E body \in SnapArmamentoBodies :
       SnapWrite("POST /api/armamentos", 0, postArmamentoHandler(db, body, clock))
  \/ \E r \in Reqs : Retire(r)

SpecSnap == Init /\ [][NextSnap]_vars

\* the stats request r has been answered
statsServed(r) ==
  /\ reqs[r].route = "GET /api/dashboard/stats"
  /\ reqs[r].pc = "done"

\* C29 as claimed: under concurrent writes, the four counters returned by one
\* getDashboardStats call form a consistent snapshot: all four hold at once
\* in one database state that existed between the start and the end of the
\* call.
C29_ConsistentSnapshot ==
  \A r \in Reqs :
    statsServed(r) => reqs[r].data.stats \in reqs[r].data.seen

\* C29 as amended: each of the four counters, taken alone, is the count its
\* query has in some database state that existed between the start and the
\* end of the call; the four need not come from the same state.
C29_EachCounterWasTrue ==
  \A r \in Reqs :
    statsServed(r) =>
      \A c \in Range(StatsSteps) :
        \E s \in reqs[r].data.seen : s[c] = reqs[r].data.stats[c]

\* a call was answered with four counters that never held together
C29_Witness ==
  \E r \in Reqs :
    /\ statsServed(r)
    /\ reqs[r].data.stats \notin reqs[r].data.seen
    /\ reqs[r].data.stats.armamentoEmUso > reqs[r].data.stats.totalServidores

====
